---- MODULE Spec2Model ----
(***************************************************************************)
(* SATEPSI scraper (src/src/satepsi_scraper.py, src/src/config.py).        *)
(*                                                                         *)
(* Three specifications share this module:                                 *)
(*   Spec      - main(): fetch, persist, compare, notify, update history,  *)
(*               over several consecutive runs of the script;              *)
(*   SpecDiff  - diff_status applied to pairs of snapshots;                *)
(*   SpecParse - parse_html, parse_table, parse_links applied to documents.*)
(*                                                                         *)
(* Text is a sequence of tokens (words, " ", ":", "+"), so that strip,     *)
(* rstrip(":"), replace and slicing are computed and not assumed.  An      *)
(* optional node (find() returning None) is a sequence of length 0 or 1.   *)
(***************************************************************************)
EXTENDS Integers, Sequences, FiniteSets, TLC

VARIABLES
    pc,            \* position of main() in the current run
    run,           \* number of the current run of the script
    email_config,  \* config.EMAIL_CONFIG is non-empty (set at import)
    instruments,   \* main: instruments
    files,         \* the three timestamped output files of this run
    history,       \* the file PREVIOUS_DATA_FILE
    email_arg,     \* the list main passes to send_email
    outbox,        \* bodies of the messages the SMTP server accepted in this run
    raisedIn,      \* the call whose exception left main(), "" if none
    abortReason,   \* "fetch" or "nodata" for an aborted run, "" otherwise
    log,           \* calls with an effect outside the process made by this run, in order
    histAtStart,   \* the history file as the run found it
    emailInputs,   \* every input send_email was given, with the kind of run
    d_old, d_new,  \* SpecDiff: the two snapshots
    d_out,         \* SpecDiff: outcome of diff_status
    p_kind, p_in,  \* SpecParse: extractor and its document
    p_out          \* SpecParse: outcome of the extractor

vars == <<pc, run, email_config, instruments, files, history, email_arg, outbox,
          raisedIn, abortReason, log, histAtStart, emailInputs,
          d_old, d_new, d_out, p_kind, p_in, p_out>>

mainVars == <<pc, run, email_config, instruments, files, history, email_arg, outbox,
              raisedIn, abortReason, log, histAtStart, emailInputs>>
diffVars == <<d_old, d_new, d_out>>
parseVars == <<p_kind, p_in, p_out>>

----------------------------------------------------------------------------
(* Bounds *)

MaxRuns == 2      \* consecutive runs of the script
MaxItems == 2     \* accordion items in a document given to parse_html
MaxPage == 2      \* accordion items in the page main() fetches
MaxSnap == 2      \* records in a snapshot given to diff_status
MaxRows == 4      \* <tr> rows in a table given to parse_table
MaxNodes == 2     \* sibling nodes in a document given to parse_links

SeqsUpTo(S, n) == UNION {[1..k -> S] : k \in 0..n}

----------------------------------------------------------------------------
(* Text *)

Absent == <<>>
Some(x) == <<x>>
Present(o) == Len(o) > 0
The(o) == o[1]

RECURSIVE LStrip(_)
LStrip(s) == IF s # <<>> /\ Head(s) = " " THEN LStrip(Tail(s)) ELSE s

RECURSIVE RStrip(_)
RStrip(s) ==
    IF s # <<>> /\ s[Len(s)] = " " THEN RStrip(SubSeq(s, 1, Len(s) - 1)) ELSE s

\* str.strip()
Strip(s) == RStrip(LStrip(s))

\* str.rstrip(":")
RECURSIVE RStripColon(_)
RStripColon(s) ==
    IF s # <<>> /\ s[Len(s)] = ":" THEN RStripColon(SubSeq(s, 1, Len(s) - 1)) ELSE s

\* str.replace(sub, ""): every non-overlapping occurrence, left to right
RECURSIVE ReplaceWithEmpty(_, _)
ReplaceWithEmpty(s, sub) ==
    IF sub = <<>> \/ Len(s) < Len(sub) THEN s
    ELSE IF SubSeq(s, 1, Len(sub)) = sub
         THEN ReplaceWithEmpty(SubSeq(s, Len(sub) + 1, Len(s)), sub)
         ELSE <<Head(s)>> \o ReplaceWithEmpty(Tail(s), sub)

\* str.startswith("+")
StartsWithPlus(s) == s # <<>> /\ Head(s) = "+"

----------------------------------------------------------------------------
(* config.FIELD_MAP, in declaration order: <<label on the site, field>> *)

FIELD_MAP ==
    << <<<<"Status">>, "Status">>,
       <<<<"Autores">>, "Autores">>,
       <<<<"Editora">>, "Editora">>,
       <<<<"Construto">>, "Construto">>,
       <<<<"Publico-alvo">>, "PublicoAlvo">>,
       <<<<"Idade", " ", "da", " ", "amostra">>, "IdadeAmostra">>,
       <<<<"Aplicacao">>, "Aplicacao">>,
       <<<<"Correcao">>, "Correcao">>,
       <<<<"Data", " ", "de", " ", "aprovacao">>, "DataAprovacao">>,
       <<<<"Prazo", " ", "dos", " ", "estudos", " ", "de", " ", "validade">>, "PrazoEstudos">>,
       <<<<"Observacoes">>, "Observacoes">> >>

\* FIELD_MAP.values()
FieldMapValues == {FIELD_MAP[i][2] : i \in 1..Len(FIELD_MAP)}

\* FIELD_MAP.get(label): Absent for None
FieldMapGet(label) ==
    IF \E i \in 1..Len(FIELD_MAP) : FIELD_MAP[i][1] = label
    THEN Some(FIELD_MAP[CHOOSE i \in 1..Len(FIELD_MAP) : FIELD_MAP[i][1] = label][2])
    ELSE Absent

\* {v: "" for v in FIELD_MAP.values()}
EmptyRecord == [k \in FieldMapValues |-> <<>>]

\* rec[key] = value on a dict: the key is added when it is new
SetItem(rec, key, value) == (key :> value) @@ rec

----------------------------------------------------------------------------
(* Outcome of a call: the value it returns, or the exception it raises *)

Return(v) == [raised |-> "", value |-> v]
Raise(e) == [raised |-> e, value |-> <<>>]

----------------------------------------------------------------------------
(* parse_html                                                              *)
(* A document is the sequence of its div.accordion-item elements.  An item *)
(* is [header, rows]: header is the optional direct <a> child, with the    *)
(* text before its span.badge, the optional badge text and the text after; *)
(* a row is a div.row with its optional div.font-weight-bold (label) and   *)
(* its optional div.col-md-8 and div.col-md-10.                            *)

\* header.get_text(strip=True): every string stripped, then concatenated
HeaderText(h) ==
    Strip(h.before)
        \o (IF Present(h.badge) THEN Strip(The(h.badge)) ELSE <<>>)
        \o Strip(h.after)

\* status_badge.get_text(strip=True) if status_badge else ""
BadgeStatus(h) == IF Present(h.badge) THEN Strip(The(h.badge)) ELSE <<>>

\* title.replace(status, "").strip()
CleanTitle(h) == Strip(ReplaceWithEmpty(HeaderText(h), BadgeStatus(h)))

\* row.find(col-md-8) or row.find(col-md-10): a Tag is always truthy
RowValue(row) == IF Present(row.col8) THEN row.col8 ELSE row.col10

\* the loop over item.find_all("div", class_="row")
RECURSIVE HtmlRows(_, _)
HtmlRows(rec, rows) ==
    IF rows = <<>> THEN rec
    ELSE LET row == Head(rows)
             value == RowValue(row)
         IN  IF ~Present(row.label) \/ ~Present(value)
             THEN HtmlRows(rec, Tail(rows))
             ELSE LET label_text == RStripColon(Strip(The(row.label)))
                      value_text == Strip(The(value))
                      key == FieldMapGet(label_text)
                  IN  IF Present(key)
                      THEN HtmlRows(SetItem(rec, The(key), value_text), Tail(rows))
                      ELSE HtmlRows(rec, Tail(rows))

\* the record of one accordion item that has a header
HtmlRecord(item) ==
    LET h == The(item.header)
        rec0 == SetItem(SetItem(EmptyRecord, "Status", BadgeStatus(h)),
                        "Nome", CleanTitle(h))
    IN  HtmlRows(rec0, item.rows)

RECURSIVE parse_html(_)
parse_html(items) ==
    IF items = <<>> THEN <<>>
    ELSE IF ~Present(Head(items).header)
         THEN parse_html(Tail(items))
         ELSE <<HtmlRecord(Head(items))>> \o parse_html(Tail(items))

----------------------------------------------------------------------------
(* parse_table                                                             *)
(* A table is the sequence of its <tr>.  A row is [cols, detail]: cols the *)
(* texts of its <td>, detail its optional td[colspan] given as the         *)
(* sequence of its <strong> elements, each with its label text and its     *)
(* optional next sibling, a string or a tag.                               *)

\* the loop over td.find_all("strong"); nxt.strip() on a Tag is a call of
\* None (Tag.strip looks up a child <strip>), a TypeError
RECURSIVE TableDetail(_, _)
TableDetail(rec, strongs) ==
    IF strongs = <<>> THEN Return(rec)
    ELSE LET s == Head(strongs)
             label == RStripColon(Strip(s.label))
             key == FieldMapGet(label)
         IN  IF ~Present(key) THEN TableDetail(rec, Tail(strongs))
             ELSE IF ~Present(s.next) \/ (~The(s.next).tag /\ The(s.next).text = <<>>)
                  THEN TableDetail(SetItem(rec, The(key), <<>>), Tail(strongs))
                  ELSE IF The(s.next).tag THEN Raise("TypeError")
                  ELSE TableDetail(SetItem(rec, The(key), Strip(The(s.next).text)),
                                   Tail(strongs))

\* the record of a summary row of at least 4 columns, before its detail row
TableSummary(cols) ==
    SetItem(SetItem(SetItem(SetItem(EmptyRecord,
        "Status", Strip(cols[1])),
        "Autores", Strip(cols[2])),
        "Editora", Strip(cols[3])),
        "Construto", Strip(cols[4]))

\* the loop for i in range(1, len(rows), 2); i is the 1-based index of rows[i]
RECURSIVE TableLoop(_, _, _)
TableLoop(rows, i, acc) ==
    IF i > Len(rows) THEN Return(acc)
    ELSE LET summary == rows[i]
             detail == IF i + 1 <= Len(rows) THEN Some(rows[i + 1]) ELSE Absent
         IN  IF Len(summary.cols) < 4 THEN TableLoop(rows, i + 2, acc)
             ELSE LET rec0 == TableSummary(summary.cols)
                      r == IF Present(detail) /\ Present(The(detail).detail)
                           THEN TableDetail(rec0, The(The(detail).detail))
                           ELSE Return(rec0)
                  IN  IF r.raised # "" THEN r
                      ELSE TableLoop(rows, i + 2, Append(acc, r.value))

\* parse_table with the loop started at the header row, range(0, len(rows), 2)
parse_table_from_header(rows) == TableLoop(rows, 1, <<>>)

parse_table(rows) == TableLoop(rows, 2, <<>>)

----------------------------------------------------------------------------
(* parse_links                                                             *)
(* A document is the flat sequence of sibling nodes [kind, text], kind     *)
(* "a", "string" or "tag".                                                 *)

\* soup.find_all("a", string=lambda t: t and t.strip().startswith("+"))
IsPlusAnchor(node) == node.kind = "a" /\ StartsWithPlus(Strip(node.text))

\* a.get_text(strip=True)[1:].strip()
LinkConstruto(node) == Strip(Tail(Strip(node.text)))

\* the loop over a.next_siblings.  Its first statement evaluates
\* BeautifulSoup.Tag, which the class BeautifulSoup does not have (Tag and
\* NavigableString are names of the module bs4): AttributeError on the first
\* sibling, whatever it is.
LinkSiblings(rec, sibs) ==
    IF sibs = <<>> THEN Return(rec) ELSE Raise("AttributeError")

RECURSIVE LinksLoop(_, _, _)
LinksLoop(nodes, i, acc) ==
    IF i > Len(nodes) THEN Return(acc)
    ELSE IF ~IsPlusAnchor(nodes[i]) THEN LinksLoop(nodes, i + 1, acc)
    ELSE LET rec0 == SetItem(EmptyRecord, "Construto", LinkConstruto(nodes[i]))
             r == LinkSiblings(rec0, SubSeq(nodes, i + 1, Len(nodes)))
         IN  IF r.raised # "" THEN r
             ELSE LinksLoop(nodes, i + 1, Append(acc, r.value))

parse_links(nodes) == LinksLoop(nodes, 1, <<>>)

----------------------------------------------------------------------------
(* diff_status *)

\* i.get(key, "")
Get(rec, key) == IF key \in DOMAIN rec THEN rec[key] ELSE <<>>

\* {i["Construto"]: i.get("Status", "") for i in old}: a later record with
\* the same key replaces the earlier entry; i["Construto"] raises KeyError
\* on a record without that key
RECURSIVE OldMapLoop(_, _)
OldMapLoop(old, m) ==
    IF old = <<>> THEN Return(m)
    ELSE LET i == Head(old)
         IN  IF "Construto" \notin DOMAIN i THEN Raise("KeyError")
             ELSE OldMapLoop(Tail(old), SetItem(m, i["Construto"], Get(i, "Status")))

\* old_map with the first record of a key kept instead of the last
RECURSIVE OldMapFirstLoop(_, _)
OldMapFirstLoop(old, m) ==
    IF old = <<>> THEN Return(m)
    ELSE LET i == Head(old)
         IN  IF "Construto" \notin DOMAIN i THEN Raise("KeyError")
             ELSE IF i["Construto"] \in DOMAIN m THEN OldMapFirstLoop(Tail(old), m)
             ELSE OldMapFirstLoop(Tail(old), SetItem(m, i["Construto"], Get(i, "Status")))

old_map_first_wins(old) == OldMapFirstLoop(old, <<>>)

old_map(old) == OldMapLoop(old, <<>>)

\* the list comprehension over new
RECURSIVE DiffLoop(_, _, _)
DiffLoop(new, m, acc) ==
    IF new = <<>> THEN Return(acc)
    ELSE LET i == Head(new)
         IN  IF "Construto" \notin DOMAIN i THEN Raise("KeyError")
             ELSE IF i["Construto"] \in DOMAIN m /\ m[i["Construto"]] # Get(i, "Status")
                  THEN DiffLoop(Tail(new), m,
                           Append(acc, <<i["Construto"], m[i["Construto"]], Get(i, "Status")>>))
                  ELSE DiffLoop(Tail(new), m, acc)

diff_status(old, new) ==
    LET m == old_map(old)
    IN  IF m.raised # "" THEN m ELSE DiffLoop(new, m.value, <<>>)

----------------------------------------------------------------------------
(* SpecDiff: diff_status on every pair of snapshots of at most MaxSnap      *)
(* records.  The records carry the keys diff_status reads, and Nome; one    *)
(* lacks Status, one lacks Construto (a history file is any JSON).          *)

DiffRecords ==
    { [Construto |-> <<"A">>, Status |-> <<"Aprovado">>, Nome |-> <<"T1">>],
      [Construto |-> <<"A">>, Status |-> <<"Reprovado">>, Nome |-> <<"T1">>],
      [Construto |-> <<"B">>, Status |-> <<"Aprovado">>, Nome |-> <<"T2">>],
      [Construto |-> <<"B">>, Status |-> <<>>, Nome |-> <<"T2">>],
      [Construto |-> <<"B">>, Nome |-> <<"T2">>],
      [Construto |-> <<>>, Status |-> <<"Aprovado">>, Nome |-> <<"T1">>],
      [Construto |-> <<>>, Status |-> <<"Reprovado">>, Nome |-> <<"T2">>],
      [Status |-> <<"Aprovado">>, Nome |-> <<"T1">>] }

Snapshots == SeqsUpTo(DiffRecords, MaxSnap)

Pending == [raised |-> "pending", value |-> <<>>]

MainOff ==
    /\ pc = "off" /\ run = 0 /\ email_config = FALSE /\ instruments = <<>>
    /\ files = {} /\ history = <<>> /\ email_arg = <<>> /\ outbox = <<>>
    /\ raisedIn = "" /\ abortReason = "" /\ log = <<>> /\ histAtStart = <<>>
    /\ emailInputs = {}

DiffOff == d_old = <<>> /\ d_new = <<>> /\ d_out = Pending

ParseOff == p_kind = "off" /\ p_in = <<>> /\ p_out = Pending

InitDiff ==
    /\ MainOff /\ ParseOff
    /\ d_old \in Snapshots
    /\ d_new \in Snapshots
    /\ d_out = Pending

ApplyDiff ==
    /\ d_out = Pending
    /\ d_out' = diff_status(d_old, d_new)
    /\ UNCHANGED <<d_old, d_new, mainVars, parseVars>>

NextDiff == ApplyDiff

SpecDiff == InitDiff /\ [][NextDiff]_vars

\* every record of both snapshots has the key Construto
HasConstruto(snap) == \A i \in 1..Len(snap) : "Construto" \in DOMAIN snap[i]

\* the record of old that the lookup keeps for key k: the last one
LastWith(old, k) ==
    old[CHOOSE i \in 1..Len(old) :
            /\ old[i]["Construto"] = k
            /\ \A j \in (i + 1)..Len(old) : old[j]["Construto"] # k]

\* the reference result: new filtered in its own order
ReferenceDiff(old, new) ==
    LET InOld(k) == \E i \in 1..Len(old) : old[i]["Construto"] = k
        Emits(r) == /\ InOld(r["Construto"])
                    /\ Get(LastWith(old, r["Construto"]), "Status") # Get(r, "Status")
        kept == SelectSeq(new, Emits)
    IN  [n \in 1..Len(kept) |->
            <<kept[n]["Construto"],
              Get(LastWith(old, kept[n]["Construto"]), "Status"),
              Get(kept[n], "Status")>>]

\* C1: on snapshots whose records all carry Construto, diff_status returns the
\* reference result: the transitions of the records of new, in the order of new,
\* whose Construto is a key of old and whose status differs from the status of
\* the last record of old with that Construto; a record whose Construto is not
\* in old yields nothing.
C1_DiffIsReference ==
    (d_out # Pending /\ HasConstruto(d_old) /\ HasConstruto(d_new))
        => d_out = Return(ReferenceDiff(d_old, d_new))

\* C1 witness: a duplicated key in old, a changed and a new key in new, two
\* transitions in the order of new
C1_Witness ==
    /\ d_out # Pending
    /\ d_old = << [Construto |-> <<"A">>, Status |-> <<"Aprovado">>, Nome |-> <<"T1">>],
                  [Construto |-> <<"A">>, Status |-> <<"Reprovado">>, Nome |-> <<"T1">>] >>
    /\ d_new = << [Construto |-> <<"B">>, Status |-> <<"Aprovado">>, Nome |-> <<"T2">>],
                  [Construto |-> <<"A">>, Status |-> <<"Aprovado">>, Nome |-> <<"T1">>] >>
    /\ d_out = Return(<< <<<<"A">>, <<"Reprovado">>, <<"Aprovado">>>> >>)

\* old and new are the same record sequence by key and status
SameByStatus(old, new) ==
    /\ Len(old) = Len(new)
    /\ \A i \in 1..Len(old) :
          /\ old[i]["Construto"] = new[i]["Construto"]
          /\ Get(old[i], "Status") = Get(new[i], "Status")

\* C2: when old and new are the same record sequence with the same Status on
\* every record, diff_status returns the empty list, whatever the Construto
\* values are.
C2_NoChangeIsEmpty ==
    (d_out # Pending /\ HasConstruto(d_old) /\ HasConstruto(d_new)
        /\ SameByStatus(d_old, d_new))
        => d_out = Return(<<>>)

\* C2 failing input: two records share a Construto and differ in Status
C2_FailingInput ==
    /\ d_out # Pending
    /\ d_old = d_new
    /\ d_old = << [Construto |-> <<"A">>, Status |-> <<"Aprovado">>, Nome |-> <<"T1">>],
                  [Construto |-> <<"A">>, Status |-> <<"Reprovado">>, Nome |-> <<"T1">>] >>
    /\ d_out = Return(<< <<<<"A">>, <<"Reprovado">>, <<"Aprovado">>>> >>)

\* the identity key of the data model: Construto, or Nome when the record
\* has no Construto (the key is missing or empty)
IdentityKey(r) ==
    IF "Construto" \in DOMAIN r /\ r["Construto"] # <<>> THEN r["Construto"]
    ELSE Get(r, "Nome")

\* the last record of old with identity key k
LastWithKey(old, k) ==
    old[CHOOSE i \in 1..Len(old) :
            /\ IdentityKey(old[i]) = k
            /\ \A j \in (i + 1)..Len(old) : IdentityKey(old[j]) # k]

\* the transitions of new against old when records are correlated by
\* identity key
ReferenceDiffByKey(old, new) ==
    LET InOld(k) == \E i \in 1..Len(old) : IdentityKey(old[i]) = k
        Emits(r) == /\ InOld(IdentityKey(r))
                    /\ Get(LastWithKey(old, IdentityKey(r)), "Status") # Get(r, "Status")
        kept == SelectSeq(new, Emits)
    IN  [n \in 1..Len(kept) |->
            <<IdentityKey(kept[n]),
              Get(LastWithKey(old, IdentityKey(kept[n])), "Status"),
              Get(kept[n], "Status")>>]

\* C11: diff_status correlates records by Construto, or by Nome when the
\* record has no Construto (empty or absent): its result is the list of
\* transitions between records of the same identity key.
C11_NameFallback ==
    d_out # Pending => d_out = Return(ReferenceDiffByKey(d_old, d_new))

\* C11 failing input: two instruments without Construto and with different
\* names are reported as one instrument that changed status
C11_FailingInput ==
    /\ d_old = << [Construto |-> <<>>, Status |-> <<"Aprovado">>, Nome |-> <<"T1">>] >>
    /\ d_new = << [Construto |-> <<>>, Status |-> <<"Reprovado">>, Nome |-> <<"T2">>] >>
    /\ d_out = Return(<< << <<>>, <<"Aprovado">>, <<"Reprovado">> >> >>)
    /\ ReferenceDiffByKey(d_old, d_new) = <<>>

----------------------------------------------------------------------------
(* SpecParse: the three extractors on bounded documents *)

HtmlHeaders ==
    { [before |-> <<"Teste", " ", "XYZ", " ">>, badge |-> Some(<<" ", "Aprovado">>),
       after |-> <<>>],
      [before |-> <<"T2">>, badge |-> Absent, after |-> <<" ">>] }

HtmlRowSet ==
    { [label |-> Some(<<"Construto", ":">>), col8 |-> Some(<<" ", "Memoria">>),
       col10 |-> Absent],
      [label |-> Some(<<"Status">>), col8 |-> Absent, col10 |-> Some(<<"Reprovado">>)],
      [label |-> Some(<<"Foo", ":">>), col8 |-> Some(<<"x">>), col10 |-> Absent],
      [label |-> Absent, col8 |-> Some(<<"x">>), col10 |-> Absent] }

HtmlItems ==
    [header : {Absent} \cup {Some(h) : h \in HtmlHeaders}, rows : SeqsUpTo(HtmlRowSet, 1)]

HtmlDocs == SeqsUpTo(HtmlItems, MaxItems)

TableRows ==
    { [cols |-> << <<"Aprovado">>, <<" ", "Silva">>, <<"Editora", " ", "X">>, <<"Memoria">> >>,
       detail |-> Absent],
      [cols |-> << <<"Aprovado">>, <<"Silva">>, <<"Editora">> >>, detail |-> Absent],
      [cols |-> << <<"Reprovado">>, <<"Lima">>, <<"Editora">>, <<"Atencao">>, <<"x">> >>,
       detail |-> Absent],
      [cols |-> << <<"Publico-alvo", ":", " ", "Adultos">> >>,
       detail |-> Some(<< [label |-> <<"Publico-alvo", ":">>,
                           next |-> Some([tag |-> FALSE, text |-> <<" ", "Adultos">>])] >>)],
      [cols |-> << <<"Foo", ":", "Observacoes", ":">> >>,
       detail |-> Some(<< [label |-> <<"Foo", ":">>,
                           next |-> Some([tag |-> TRUE, text |-> <<>>])],
                          [label |-> <<"Observacoes", ":">>, next |-> Absent] >>)],
      [cols |-> << <<"Correcao", ":">> >>,
       detail |-> Some(<< [label |-> <<"Correcao", ":">>,
                           next |-> Some([tag |-> TRUE, text |-> <<>>])] >>)],
      [cols |-> << <<"Status", ":", " ", "Suspenso">> >>,
       detail |-> Some(<< [label |-> <<"Status", ":">>,
                           next |-> Some([tag |-> FALSE, text |-> <<" ", "Suspenso">>])] >>)] }

Tables == SeqsUpTo(TableRows, MaxRows)

LinkNodes ==
    { [kind |-> "a", text |-> <<" ", "+", " ", "Memoria">>],
      [kind |-> "a", text |-> <<"Outro">>],
      [kind |-> "string", text |-> <<"Autores", ":", " ", "Silva">>],
      [kind |-> "tag", text |-> <<"Status", ":", "Aprovado">>] }

LinkDocs == SeqsUpTo(LinkNodes, MaxNodes)

InitParse ==
    /\ MainOff /\ DiffOff
    /\ p_kind \in {"html", "table", "links"}
    /\ p_in \in (CASE p_kind = "html" -> HtmlDocs
                   [] p_kind = "table" -> Tables
                   [] p_kind = "links" -> LinkDocs)
    /\ p_out = Pending

ApplyParseHtml ==
    /\ p_kind = "html" /\ p_out = Pending
    /\ p_out' = Return(parse_html(p_in))
    /\ UNCHANGED <<p_kind, p_in, mainVars, diffVars>>

ApplyParseTable ==
    /\ p_kind = "table" /\ p_out = Pending
    /\ p_out' = parse_table(p_in)
    /\ UNCHANGED <<p_kind, p_in, mainVars, diffVars>>

ApplyParseLinks ==
    /\ p_kind = "links" /\ p_out = Pending
    /\ p_out' = parse_links(p_in)
    /\ UNCHANGED <<p_kind, p_in, mainVars, diffVars>>

NextParse == ApplyParseHtml \/ ApplyParseTable \/ ApplyParseLinks

SpecParse == InitParse /\ [][NextParse]_vars

\* the canonical field set: the eleven FIELD_MAP targets and Nome
CanonicalFields == FieldMapValues \cup {"Nome"}

\* C10: every record an extractor emits has exactly the canonical field set as
\* its keys.
C10_CanonicalKeys ==
    p_out.raised = ""
        => \A i \in 1..Len(p_out.value) : DOMAIN p_out.value[i] = CanonicalFields

\* C10 failing input: a table of a header row and one summary row of 4 columns
C10_FailingInput ==
    /\ p_kind = "table" /\ p_out.raised = ""
    /\ Len(p_in) = 2 /\ Len(p_in[2].cols) = 4
    /\ Len(p_out.value) = 1
    /\ DOMAIN p_out.value[1] = FieldMapValues
    /\ "Nome" \notin DOMAIN p_out.value[1]

\* the rows parse_table reads as summary rows and that have at least 4
\* columns: every second row after the header, a last row without a
\* following row included
SummaryRows(rows) ==
    {i \in 2..Len(rows) : i % 2 = 0 /\ Len(rows[i].cols) >= 4}

\* the same without a last row that has no row after it
PairedSummaryRows(rows) == {i \in SummaryRows(rows) : i < Len(rows)}

\* the <strong> elements of the row that follows row i, if any
DetailStrongs(rows, i) ==
    IF i + 1 <= Len(rows) /\ Present(rows[i + 1].detail)
    THEN The(rows[i + 1].detail) ELSE <<>>

\* the field a <strong> label maps to, Absent if none
StrongField(s) == FieldMapGet(RStripColon(Strip(s.label)))

\* the detail row of row i sets field f itself
DetailSets(rows, i, f) ==
    \E n \in 1..Len(DetailStrongs(rows, i)) :
        StrongField(DetailStrongs(rows, i)[n]) = Some(f)

\* the detail row of row i has a mapped label directly followed by a tag
DetailBreaks(rows, i) ==
    \E n \in 1..Len(DetailStrongs(rows, i)) :
        LET s == DetailStrongs(rows, i)[n]
        IN  Present(StrongField(s)) /\ Present(s.next) /\ The(s.next).tag

SummaryFields == <<"Status", "Autores", "Editora", "Construto">>

\* the records are those of the summary rows in S, in order, each with its
\* four fields from its first four columns; with detail, a field the detail
\* row sets itself is exempt
RecordsOf(rows, S, recs, detail) ==
    /\ Len(recs) = Cardinality(S)
    /\ \A i \in S :
          LET rec == recs[Cardinality({j \in S : j <= i})]
          IN  \A n \in 1..4 :
                 \/ detail /\ DetailSets(rows, i, SummaryFields[n])
                 \/ rec[SummaryFields[n]] = Strip(rows[i].cols[n])

\* C12 as claimed: the rows after the header are read as (summary, detail)
\* pairs; every summary row of at least 4 columns yields one record with
\* Status, Autores, Editora, Construto from its first four columns, and a
\* last row without a partner yields none.
C12_TrailingRowIgnored ==
    (p_kind = "table" /\ p_out # Pending)
        => /\ p_out.raised = ""
           /\ RecordsOf(p_in, PairedSummaryRows(p_in), p_out.value, FALSE)

\* C12 as amended: every second row after the header is a summary row, the
\* last row included when no row follows it; parse_table raises TypeError
\* exactly when the detail row of a summary row of at least 4 columns has a
\* mapped label directly followed by a tag; otherwise it returns one record
\* per summary row of at least 4 columns, in order, with Status, Autores,
\* Editora, Construto from its first four columns unless the detail row
\* carries that field itself.
C12_TablePairs ==
    (p_kind = "table" /\ p_out # Pending)
        => IF \E i \in SummaryRows(p_in) : DetailBreaks(p_in, i)
           THEN p_out = Raise("TypeError")
           ELSE /\ p_out.raised = ""
                /\ RecordsOf(p_in, SummaryRows(p_in), p_out.value, TRUE)

\* C12 witness: header, summary, detail and a last summary row without a
\* detail row: two records, the second from the last row
C12_Witness ==
    /\ p_kind = "table" /\ p_out.raised = ""
    /\ Len(p_in) = 4
    /\ Len(p_in[2].cols) = 4 /\ Present(p_in[3].detail) /\ Len(p_in[4].cols) = 5
    /\ Len(p_out.value) = 2
    /\ p_out.value[1]["PublicoAlvo"] = <<"Adultos">>
    /\ p_out.value[2]["Construto"] = <<"Atencao">>

----------------------------------------------------------------------------
(* Files: save_json, load_json, save_excel, generate_word                  *)
(* A file is absent or holds [valid, data]; valid is FALSE for a file that *)
(* open(path, "w") truncated and the writer did not complete.              *)

\* json.dump(data, f, ensure_ascii=False, indent=2), the complete text
JsonText(data) == [valid |-> TRUE, data |-> data]

Truncated == [valid |-> FALSE, data |-> <<>>]

\* what open(path, "w") followed by a writer can do to the file at path
WriteOutcomes == {"ok", "open_fails", "write_fails"}

\* the file at path after a write of content with the given outcome
Written(file, content, outcome) ==
    CASE outcome = "ok" -> Some(content)
      [] outcome = "open_fails" -> file
      [] outcome = "write_fails" -> Some(Truncated)

\* save_json(data, path)
save_json(data, file, outcome) ==
    [raised |-> IF outcome = "ok" THEN "" ELSE "OSError",
     file |-> Written(file, JsonText(data), outcome)]

\* load_json(path): open may fail, json.load raises on text that is not JSON
load_json(file, opens) ==
    IF ~opens THEN Raise("OSError")
    ELSE IF ~The(file).valid THEN Raise("JSONDecodeError")
    ELSE Return(The(file).data)

\* ["Nome"] + [c for c in FIELD_MAP.values() if c != "Nome"]
ExcelColumns == <<"Nome">> \o [i \in 1..Len(FIELD_MAP) |-> FIELD_MAP[i][2]]

\* pd.DataFrame(data, columns=cols).to_excel(path): one row per record, the
\* columns in order, an empty cell for a key the record lacks
save_excel(data, file, outcome) ==
    LET sheet == [header |-> ExcelColumns,
                  rows |-> [r \in 1..Len(data) |->
                               [c \in 1..Len(ExcelColumns) |-> Get(data[r], ExcelColumns[c])]]]
    IN  [raised |-> IF outcome = "ok" THEN "" ELSE "OSError",
         file |-> Written(file, [valid |-> TRUE, data |-> sheet], outcome)]

\* keys of a record in insertion order: the FIELD_MAP targets, then Nome
KeyOrder == [i \in 1..Len(FIELD_MAP) |-> FIELD_MAP[i][2]] \o <<"Nome">>

\* generate_word(data, path): per record a heading inst["Construto"] and one
\* paragraph per non-empty field
generate_word(data, file, outcome) ==
    LET NonEmpty(inst) ==
            LET Keep(k) == k \in DOMAIN inst /\ inst[k] # <<>>
            IN  SelectSeq(KeyOrder, Keep)
        section(inst) ==
            [heading |-> inst["Construto"],
             paragraphs |-> [n \in 1..Len(NonEmpty(inst)) |->
                                <<NonEmpty(inst)[n], inst[NonEmpty(inst)[n]]>>]]
        doc == [r \in 1..Len(data) |-> section(data[r])]
    IN  IF \E r \in 1..Len(data) : "Construto" \notin DOMAIN data[r]
        THEN [raised |-> "KeyError", file |-> file]
        ELSE [raised |-> IF outcome = "ok" THEN "" ELSE "OSError",
              file |-> Written(file, [valid |-> TRUE, data |-> doc], outcome)]

----------------------------------------------------------------------------
(* send_email *)

\* the body of the message: one line per transition, or the no-change line
EmailBody(changes) ==
    <<<<"Ola Luan,">>>>
        \o (IF changes # <<>>
            THEN <<<<"Foram detectadas as seguintes alteracoes:">>>>
                 \o [n \in 1..Len(changes) |->
                        <<"-">> \o changes[n][1] \o <<":">> \o changes[n][2]
                            \o <<"->">> \o changes[n][3]]
            ELSE <<<<"Nenhuma alteracao foi detectada.">>>>)
        \o <<<<"Atenciosamente,">>, <<"Sistema de Monitoramento Satepsi">>>>

\* what the SMTP session can do: connect/starttls/login fail, send_message
\* fails, or the message is accepted
SmtpOutcomes == {"sent", "login_fails", "send_fails"}

\* send_email without its try/except: a failure of the session leaves it
send_email_uncaught(changes, configured, smtp, box) ==
    IF ~configured THEN [raised |-> "", outbox |-> box]
    ELSE IF smtp = "sent" THEN [raised |-> "", outbox |-> Append(box, EmailBody(changes))]
    ELSE [raised |-> "SMTPException", outbox |-> box]

\* send_email(changes): the messages the server has accepted afterwards, and
\* the exception that leaves the function ("" for none).  Without EMAIL_CONFIG
\* it warns and returns; every Exception of the session is caught and printed.
send_email(changes, configured, smtp, box) ==
    IF ~configured THEN [raised |-> "", outbox |-> box]
    ELSE IF smtp = "sent" THEN [raised |-> "", outbox |-> Append(box, EmailBody(changes))]
    ELSE [raised |-> "", outbox |-> box]

----------------------------------------------------------------------------
(* Spec: main(), run after run *)

Formats == {"json", "xlsx", "docx"}

NoFiles == [f \in Formats |-> Absent]

SiteItem(name, construto, status) ==
    [header |-> Some([before |-> name \o <<" ">>, badge |-> Some(status), after |-> <<>>]),
     rows |-> << [label |-> Some(<<"Construto", ":">>), col8 |-> Some(construto),
                  col10 |-> Absent] >>]

\* the items the site can show: an instrument of construct A in either
\* status, and an instrument of construct B
SiteItems ==
    { SiteItem(<<"T1">>, <<"A">>, <<"Aprovado">>),
      SiteItem(<<"T1">>, <<"A">>, <<"Reprovado">>),
      SiteItem(<<"T2">>, <<"B">>, <<"Aprovado">>) }

SitePages == SeqsUpTo(SiteItems, MaxPage)

Ended == {"done", "aborted", "raised"}

Init ==
    /\ DiffOff /\ ParseOff
    /\ pc = "fetch"
    /\ run = 1
    /\ email_config \in BOOLEAN
    /\ instruments = <<>>
    /\ files = NoFiles
    /\ history = Absent
    /\ email_arg = <<>>
    /\ outbox = <<>>
    /\ raisedIn = ""
    /\ abortReason = ""
    /\ log = <<>>
    /\ histAtStart = Absent
    /\ emailInputs = {}

\* python satepsi_scraper.py once more: config is imported again
NewRun ==
    /\ pc \in Ended
    /\ run < MaxRuns
    /\ run' = run + 1
    /\ pc' = "fetch"
    /\ email_config' \in BOOLEAN
    /\ instruments' = <<>>
    /\ files' = NoFiles
    /\ email_arg' = <<>>
    /\ outbox' = <<>>
    /\ raisedIn' = ""
    /\ abortReason' = ""
    /\ log' = <<>>
    /\ histAtStart' = history
    /\ UNCHANGED <<history, emailInputs, diffVars, parseVars>>

\* fetch_from_url() raises
FetchRaises ==
    /\ pc = "fetch"
    /\ pc' = "aborted"
    /\ abortReason' = "fetch"
    /\ UNCHANGED <<run, email_config, instruments, files, history, email_arg, outbox,
                   raisedIn, log, histAtStart, emailInputs, diffVars, parseVars>>

\* the emptiness test made only after the JSON output was written
FetchEmptyAfterSave ==
    /\ pc = "fetch"
    /\ \E page \in SitePages :
          /\ parse_html(page) = <<>>
          /\ instruments' = parse_html(page)
    /\ log' = Append(log, "save_json")
    /\ files' = [files EXCEPT !["json"] = Some(JsonText(<<>>))]
    /\ pc' = "aborted"
    /\ abortReason' = "nodata"
    /\ UNCHANGED <<run, email_config, history, email_arg, outbox,
                   raisedIn, histAtStart, emailInputs, diffVars, parseVars>>

\* fetch_from_url() returns no record
FetchEmpty ==
    /\ pc = "fetch"
    /\ \E page \in SitePages :
          /\ parse_html(page) = <<>>
          /\ instruments' = parse_html(page)
    /\ pc' = "aborted"
    /\ abortReason' = "nodata"
    /\ UNCHANGED <<run, email_config, files, history, email_arg, outbox,
                   raisedIn, log, histAtStart, emailInputs, diffVars, parseVars>>

\* fetch_from_url() returns records
FetchRecords ==
    /\ pc = "fetch"
    /\ \E page \in SitePages :
          /\ parse_html(page) # <<>>
          /\ instruments' = parse_html(page)
    /\ pc' = "save_json"
    /\ UNCHANGED <<run, email_config, files, history, email_arg, outbox,
                   raisedIn, abortReason, log, histAtStart, emailInputs, diffVars, parseVars>>

\* one of the three output writes of main: an exception of the writer is not
\* caught and leaves main
OutputWrite(here, call, fmt, next, r) ==
    /\ pc = here
    /\ log' = Append(log, call)
    /\ files' = [files EXCEPT ![fmt] = r.file]
    /\ IF r.raised # ""
       THEN pc' = "raised" /\ raisedIn' = call
       ELSE pc' = next /\ raisedIn' = raisedIn
    /\ UNCHANGED <<run, email_config, instruments, history, email_arg, outbox,
                   abortReason, histAtStart, emailInputs, diffVars, parseVars>>

SaveJson ==
    \E o \in WriteOutcomes :
        OutputWrite("save_json", "save_json", "json", "save_excel",
                    save_json(instruments, files["json"], o))

SaveExcel ==
    \E o \in WriteOutcomes :
        OutputWrite("save_excel", "save_excel", "xlsx", "generate_word",
                    save_excel(instruments, files["xlsx"], o))

GenerateWord ==
    \E o \in WriteOutcomes :
        OutputWrite("generate_word", "generate_word", "docx", "compare",
                    generate_word(instruments, files["docx"], o))

\* the history overwritten before it is read and compared
CompareAfterOverwrite ==
    /\ pc = "compare"
    /\ Present(history)
    /\ log' = Append(log, "load_json")
    /\ history' = Some(JsonText(instruments))
    /\ pc' = "notify"
    /\ raisedIn' = raisedIn
    /\ email_arg' = diff_status(instruments, instruments).value
    /\ UNCHANGED <<run, email_config, instruments, files, outbox,
                   abortReason, histAtStart, emailInputs, diffVars, parseVars>>

\* PREVIOUS_DATA_FILE.exists(): load_json and diff_status, uncaught
CompareWithHistory ==
    /\ pc = "compare"
    /\ Present(history)
    /\ log' = Append(log, "load_json")
    /\ \E opens \in BOOLEAN :
          LET old_data == load_json(history, opens)
              changes == IF old_data.raised # "" THEN old_data
                         ELSE diff_status(old_data.value, instruments)
          IN  IF old_data.raised # ""
              THEN pc' = "raised" /\ raisedIn' = "load_json" /\ email_arg' = email_arg
              ELSE IF changes.raised # ""
              THEN pc' = "raised" /\ raisedIn' = "diff_status" /\ email_arg' = email_arg
              ELSE pc' = "notify" /\ raisedIn' = raisedIn /\ email_arg' = changes.value
    /\ UNCHANGED <<run, email_config, instruments, files, history, outbox,
                   abortReason, histAtStart, emailInputs, diffVars, parseVars>>

\* a first-run argument that carries a marker entry
FirstRunArgMarked == << << <<"first run">>, <<>>, <<>> >> >>

\* the first-run argument of send_email
FirstRunArg == <<>>

\* no PREVIOUS_DATA_FILE: send_email([])
CompareFirstRun ==
    /\ pc = "compare"
    /\ ~Present(history)
    /\ pc' = "notify"
    /\ email_arg' = FirstRunArg
    /\ UNCHANGED <<run, email_config, instruments, files, history, outbox, raisedIn,
                   abortReason, log, histAtStart, emailInputs, diffVars, parseVars>>

\* the call of send_email
Notify ==
    /\ pc = "notify"
    /\ log' = Append(log, "send_email")
    /\ emailInputs' = emailInputs \cup {[first |-> ~Present(history), arg |-> email_arg]}
    /\ \E smtp \in SmtpOutcomes :
          LET r == send_email(email_arg, email_config, smtp, outbox)
          IN  /\ outbox' = r.outbox
              /\ IF r.raised # ""
                 THEN pc' = "raised" /\ raisedIn' = "send_email"
                 ELSE pc' = "update_history" /\ raisedIn' = raisedIn
    /\ UNCHANGED <<run, email_config, instruments, files, history, email_arg,
                   abortReason, histAtStart, diffVars, parseVars>>

\* save_json(instruments, PREVIOUS_DATA_FILE), uncaught
UpdateHistory ==
    /\ pc = "update_history"
    /\ log' = Append(log, "save_history")
    /\ \E o \in WriteOutcomes :
          LET r == save_json(instruments, history, o)
          IN  /\ history' = r.file
              /\ IF r.raised # ""
                 THEN pc' = "raised" /\ raisedIn' = "save_history"
                 ELSE pc' = "done" /\ raisedIn' = raisedIn
    /\ UNCHANGED <<run, email_config, instruments, files, email_arg, outbox,
                   abortReason, histAtStart, emailInputs, diffVars, parseVars>>

Next ==
    \/ NewRun
    \/ FetchRaises
    \/ FetchEmpty
    \/ FetchRecords
    \/ SaveJson
    \/ SaveExcel
    \/ GenerateWord
    \/ CompareWithHistory
    \/ CompareFirstRun
    \/ Notify
    \/ UpdateHistory

Spec == Init /\ [][Next]_vars

----------------------------------------------------------------------------
(* Claims about main() *)

InLog(call) == \E i \in 1..Len(log) : log[i] = call

Count(call) == Cardinality({i \in 1..Len(log) : log[i] = call})

\* the output file of a format is complete
Persisted(fmt) == Present(files[fmt]) /\ The(files[fmt]).valid

\* C3: a run aborted by a fetch failure or by an empty extraction has made no
\* output write, has not called send_email, has sent nothing and has left the
\* history file as it found it.
C3_AbortNoSideEffects ==
    pc = "aborted"
        => /\ abortReason \in {"fetch", "nodata"}
           /\ log = <<>>
           /\ files = NoFiles
           /\ outbox = <<>>
           /\ history = histAtStart

\* C3 witness: a second run aborts for no data over an existing history file
C3_Witness ==
    /\ pc = "aborted" /\ abortReason = "nodata" /\ run = 2
    /\ Present(history) /\ The(history).valid

\* C4: when one of the three output writes fails, the other formats are still
\* written and the run goes on to send_email and to the history update.
C4_WritesIndependent ==
    (pc \in Ended /\ \E f \in Formats : InLog("save_json") /\ ~Persisted(f))
        => /\ InLog("save_json") /\ InLog("save_excel") /\ InLog("generate_word")
           /\ InLog("send_email")
           /\ InLog("save_history")

\* C4 failing input: save_json raises in the first run
C4_FailingInput ==
    /\ pc = "raised" /\ raisedIn = "save_json"
    /\ log = <<"save_json">>
    /\ files["xlsx"] = Absent /\ files["docx"] = Absent

\* C5: once send_email has been called, whatever its outcome (message sent,
\* SMTP failure, no configuration), no exception has left it, main has gone on
\* to the history write, and a run that completes that write leaves the history
\* file holding the current record sequence.
C5_NotifierNeverStops ==
    InLog("send_email")
        => /\ raisedIn # "send_email"
           /\ pc \in {"update_history", "done", "raised"}
           /\ (pc \in Ended => InLog("save_history"))
           /\ (pc = "raised" => raisedIn = "save_history")
           /\ (pc = "done" => history = Some(JsonText(instruments)))

\* C5 witness: e-mail is configured, the SMTP session failed (nothing sent),
\* and the run completed with the history updated
C5_Witness ==
    /\ InLog("send_email") /\ email_config /\ outbox = <<>>
    /\ pc = "done" /\ history = Some(JsonText(instruments))

\* C6: a run that has persisted its three outputs and has ended called
\* send_email exactly once, before the history write, with the transitions
\* computed from the history file when it exists and with the empty list when
\* it does not.
C6_NotifierOnce ==
    (pc \in Ended /\ \A f \in Formats : Persisted(f))
        => /\ Count("send_email") = 1
           /\ \A i, j \in 1..Len(log) :
                 (log[i] = "send_email" /\ log[j] = "save_history") => i < j
           /\ (~Present(histAtStart) => email_arg = <<>>)
           /\ (Present(histAtStart) /\ The(histAtStart).valid
                 => email_arg = diff_status(The(histAtStart).data, instruments).value)

\* C6 failing input: the second run finds a truncated history file
C6_FailingInput ==
    /\ run = 2 /\ pc = "raised" /\ raisedIn = "load_json"
    /\ \A f \in Formats : Persisted(f)
    /\ Present(histAtStart) /\ ~The(histAtStart).valid
    /\ ~InLog("send_email")

\* C7: no exception leaves main: every run ends in success with the history
\* updated or in one of the two aborts.
C7_NoExceptionEscapes ==
    /\ pc # "raised"
    /\ raisedIn = ""

\* C7 failing input: the history write fails after the notification
C7_FailingInput ==
    /\ pc = "raised" /\ raisedIn = "save_history" /\ InLog("send_email")

\* C8: within a run the history file is read at most once, only before it is
\* written; it is written only as the last step, never by an aborted run, and
\* is untouched until then; a run that completes leaves it holding the run's
\* record sequence; the transitions given to send_email are those against the
\* history file as the run found it.
C8_HistoryLifecycle ==
    /\ Count("load_json") <= 1
    /\ Count("save_history") <= 1
    /\ \A i, j \in 1..Len(log) :
          (log[i] = "load_json" /\ log[j] = "save_history") => i < j
    /\ \A i \in 1..Len(log) :
          log[i] = "save_history" => (i = Len(log) /\ pc \in {"done", "raised"})
    /\ (pc = "aborted" => ~InLog("save_history"))
    /\ (~InLog("save_history") => history = histAtStart)
    /\ (pc = "done" => InLog("save_history") /\ history = Some(JsonText(instruments)))
    /\ (InLog("send_email") /\ Present(histAtStart)
          => /\ InLog("load_json")
             /\ email_arg = diff_status(The(histAtStart).data, instruments).value)

\* C8 witness: a second run completes over the first run's snapshot, reports a
\* transition against it and replaces it
C8_Witness ==
    /\ run = 2 /\ pc = "done"
    /\ Present(histAtStart) /\ The(histAtStart).valid
    /\ The(histAtStart).data # instruments
    /\ email_arg # <<>>
    /\ log = <<"save_json", "save_excel", "generate_word", "load_json",
               "send_email", "save_history">>
    /\ history = Some(JsonText(instruments))

\* C9 as claimed: the input send_email gets on a first run differs from every
\* input it gets on a later run.
C9_FirstRunMarked ==
    \A a, b \in emailInputs : (a.first /\ ~b.first) => a.arg # b.arg

\* C9 as amended: on a first run send_email gets the plain empty list, with no
\* first-run marker.
C9_FirstRunPlainEmpty ==
    \A a \in emailInputs : a.first => a.arg = <<>>

\* C9 witness: a first run and a later run without changes gave send_email
\* the same input
C9_Witness ==
    /\ [first |-> TRUE, arg |-> <<>>] \in emailInputs
    /\ [first |-> FALSE, arg |-> <<>>] \in emailInputs

====
